---------------------------- MODULE Spec2Model ----------------------------
(***************************************************************************)
(* Model of Dashboard.py: a Streamlit script that is run top to bottom on  *)
(* every interaction ("pass").  load_data (the ETL) is memoized by         *)
(* st.cache_data(ttl=3600); the rest of the script windows the table,      *)
(* evaluates the alert rules, shows the KPIs and computes the insights.    *)
(*                                                                         *)
(* Streamlit runs the script of every browser session in a thread of its   *)
(* own, and st.cache_data is one store for the whole process.  The model   *)
(* runs the passes of the sessions interleaved: the clock may advance,     *)
(* another session may call load_data, and another session may clear the   *)
(* cache, between any two steps of a pass, the wait for yf.download        *)
(* included.  A pass is abandoned where an st.* call finds a rerun request *)
(* queued by an interaction of its session.                                *)
(*                                                                         *)
(* What the script does not decide is left open: whether st.cache_data     *)
(* hands a pass the object it keeps or a copy of it, whether an entry is   *)
(* still served at the very instant it expires, and whether the trendline  *)
(* of line 241 finds the package it needs.                                 *)
(*                                                                         *)
(* A float is an IEEE 754 double, held exactly as <<sign, exponent,         *)
(* mantissa>> (see "Floating-point values"), and every arithmetic          *)
(* operation rounds its exact result to the nearest double, ties to even,  *)
(* as the hardware does for Python and numpy.                              *)
(*                                                                         *)
(* A DataFrame is a record [index, cols]: the date index (day numbers)     *)
(* and, per column name, the sequence of its values.                       *)
(***************************************************************************)
EXTENDS Integers, Sequences, FiniteSets, TLC

VARIABLES
    now,            \* wall clock, seconds
    cache,          \* the entry for load_data() in the cache object in use
    lock,           \* the session computing the value of that entry, or Free
    dropped,        \* the cache objects that a clear has dropped and that
                    \* calls of load_data started before the clear still use
    pc,             \* per session: position of its pass in the script
    df,             \* per session, line 86: the table load_data handed to the pass
    days_window,    \* per session, line 98: slider value
    df_filtered,    \* per session, line 99: the windowed table
    limits,         \* per session, lines 102-104: the three number inputs
    active_alerts,  \* per session, line 131
    kpis,           \* per session, lines 159-162: what the four metrics of
                    \* the pass show
    messages,       \* per session: the st.error messages the pass has shown
    stale,          \* per session: the page still shows data that an earlier
                    \* pass displayed
    ran,            \* history, per session: the downstream stages the pass has run
    fetchKind,      \* history, per session: what the Fetcher did in the pass
                    \* ("none": not invoked, "pending": not returned yet)
    hit,            \* history, per session: where load_data found the entry
                    \* it handed to the pass ("none": nowhere)
    lastLoad,       \* history: the entry stored last in the cache object in
                    \* use: when, what the Fetcher had done, the table
    lastFailure     \* history: when a fetch last failed, or -1

vars == <<now, cache, lock, dropped, pc, df, days_window, df_filtered, limits,
          active_alerts, kpis, messages, stale, ran, fetchKind, hit, lastLoad,
          lastFailure>>

-----------------------------------------------------------------------------
(* Program constants *)

TTL == 3600
SliderMin == 30
SliderMax == 700
SliderDefault == 365

BIG_SEVEN == <<"AAPL", "MSFT", "NVDA", "GOOGL", "META", "TSLA", "AMZN">>
CHOSEN_FIVE == <<"JPM", "KO", "DIS", "XOM", "PFE">>
MACRO_TICKERS == <<"^TNX", "MXN=X", "EURUSD=X">>
ALL_STOCKS == BIG_SEVEN \o CHOSEN_FIVE
ALL_TICKERS == ALL_STOCKS \o MACRO_TICKERS

Range(s) == {s[i] : i \in 1..Len(s)}

(* Bounds of the model *)

MaxRows == 2        \* longest table the Fetcher returns in the pipeline runs
MaxGapRows == 3     \* longest table in the ETL runs
MaxTicks == 3       \* the clock stops after MaxTicks * TickSeconds
TickSeconds == 1800 \* granularity of elapsing time
MaxWinRows == 32    \* longest table in the windowing runs

\* the browser sessions: a pass that loads, one that waits for it and one
\* that clears the cache meanwhile
Sessions == {"s1", "s2", "s3"}

\* the sessions of the runs of the whole pipeline
Pair == {"s1", "s2"}

-----------------------------------------------------------------------------
(* Natural numbers of any size: the sequence of the digits in base          *)
(* LimbBase, the least significant first, without leading zero digits       *)
(* (0 is the empty sequence).  The mantissas of doubles and the exact       *)
(* results that are rounded to them do not fit the integers of the checker. *)

LimbBits == 15
LimbBase == 32768

Min(a, b) == IF a < b THEN a ELSE b
Max(a, b) == IF a > b THEN a ELSE b

\* 2^n, for 0 <= n <= LimbBits
Pow2(n) ==
    <<1, 2, 4, 8, 16, 32, 64, 128, 256, 512, 1024, 2048, 4096, 8192, 16384, 32768>>[n + 1]

Limb(x, i) == IF i <= Len(x) THEN x[i] ELSE 0

RECURSIVE BTrim(_)
BTrim(x) ==
    IF x # <<>> /\ x[Len(x)] = 0 THEN BTrim(SubSeq(x, 1, Len(x) - 1)) ELSE x

\* the number n >= 0
RECURSIVE BFromInt(_)
BFromInt(n) == IF n = 0 THEN <<>> ELSE <<n % LimbBase>> \o BFromInt(n \div LimbBase)

BIsOdd(x) == x # <<>> /\ x[1] % 2 = 1

RECURSIVE BCmpFrom(_, _, _)
BCmpFrom(x, y, i) ==
    IF i = 0 THEN 0
    ELSE IF x[i] # y[i] THEN (IF x[i] > y[i] THEN 1 ELSE -1)
    ELSE BCmpFrom(x, y, i - 1)

\* -1, 0, 1 as x < y, x = y, x > y
BCmp(x, y) ==
    IF Len(x) # Len(y) THEN (IF Len(x) > Len(y) THEN 1 ELSE -1)
    ELSE BCmpFrom(x, y, Len(x))

RECURSIVE BAddFrom(_, _, _, _)
BAddFrom(x, y, i, carry) ==
    IF i > Len(x) /\ i > Len(y) THEN (IF carry = 0 THEN <<>> ELSE <<carry>>)
    ELSE <<(Limb(x, i) + Limb(y, i) + carry) % LimbBase>>
         \o BAddFrom(x, y, i + 1, (Limb(x, i) + Limb(y, i) + carry) \div LimbBase)

BAdd(x, y) == IF y = <<>> THEN x ELSE IF x = <<>> THEN y ELSE BAddFrom(x, y, 1, 0)

RECURSIVE BSubFrom(_, _, _, _)
BSubFrom(x, y, i, borrow) ==
    IF i > Len(x) THEN <<>>
    ELSE IF x[i] - Limb(y, i) - borrow < 0
    THEN <<x[i] - Limb(y, i) - borrow + LimbBase>> \o BSubFrom(x, y, i + 1, 1)
    ELSE <<x[i] - Limb(y, i) - borrow>> \o BSubFrom(x, y, i + 1, 0)

\* x - y, for x >= y
BSub(x, y) == IF y = <<>> THEN x ELSE BTrim(BSubFrom(x, y, 1, 0))

RECURSIVE BMulSmallFrom(_, _, _, _)
BMulSmallFrom(x, k, i, carry) ==
    IF i > Len(x) THEN (IF carry = 0 THEN <<>> ELSE <<carry>>)
    ELSE <<(x[i] * k + carry) % LimbBase>>
         \o BMulSmallFrom(x, k, i + 1, (x[i] * k + carry) \div LimbBase)

\* x * k, for 0 <= k < LimbBase
BMulSmall(x, k) == IF k = 0 THEN <<>> ELSE IF k = 1 THEN x ELSE BMulSmallFrom(x, k, 1, 0)

\* n zero digits, none for n <= 0
Zeros(n) == [i \in 1..Max(n, 0) |-> 0]

\* x * LimbBase^n
BShiftLimbs(x, n) == IF x = <<>> \/ n = 0 THEN x ELSE Zeros(n) \o x

RECURSIVE BMulFrom(_, _, _)
BMulFrom(x, y, i) ==
    IF i > Len(y) THEN <<>>
    ELSE BAdd(BShiftLimbs(BMulSmall(x, y[i]), i - 1), BMulFrom(x, y, i + 1))

BMul(x, y) == IF Len(y) = 1 THEN BMulSmall(x, y[1]) ELSE BMulFrom(x, y, 1)

\* x * 2^n
BShl(x, n) == BShiftLimbs(BMulSmall(x, Pow2(n % LimbBits)), n \div LimbBits)

\* floor(y / 2^r), for 0 <= r < LimbBits
BShrBits(y, r) ==
    BTrim([i \in 1..Len(y) |->
              (y[i] \div Pow2(r)) + (Limb(y, i + 1) % Pow2(r)) * Pow2(LimbBits - r)])

\* floor(x / 2^n)
BShr(x, n) ==
    IF n = 0 THEN x
    ELSE IF n \div LimbBits >= Len(x) THEN <<>>
    ELSE BShrBits(SubSeq(x, n \div LimbBits + 1, Len(x)), n % LimbBits)

RECURSIVE IntBitLen(_)
IntBitLen(k) == IF k = 0 THEN 0 ELSE 1 + IntBitLen(k \div 2)

\* the number of binary digits of x
BitLen(x) == IF x = <<>> THEN 0 ELSE LimbBits * (Len(x) - 1) + IntBitLen(x[Len(x)])

RECURSIVE IntTrailingZeros(_)
IntTrailingZeros(k) == IF k % 2 = 1 THEN 0 ELSE 1 + IntTrailingZeros(k \div 2)

RECURSIVE TrailingZerosFrom(_, _)
TrailingZerosFrom(x, i) ==
    IF x[i] = 0 THEN LimbBits + TrailingZerosFrom(x, i + 1) ELSE IntTrailingZeros(x[i])

\* the number of zero binary digits at the low end of x > 0
TrailingZeros(x) == TrailingZerosFrom(x, 1)

\* long division of the digits i, ..., 1 of x by k, with r < k the remainder
\* left by the digits above i and q their quotient
RECURSIVE BDivSmallFrom(_, _, _, _, _)
BDivSmallFrom(x, k, i, r, q) ==
    IF i = 0 THEN [q |-> BTrim(q), r |-> r]
    ELSE BDivSmallFrom(x, k, i - 1, (r * LimbBase + x[i]) % k,
                       <<(r * LimbBase + x[i]) \div k>> \o q)

\* quotient and remainder (an integer) of x by k, for 0 < k < LimbBase
BDivSmall(x, k) == BDivSmallFrom(x, k, Len(x), 0, <<>>)

\* the largest k with y * k <= x, at or below the estimate k
RECURSIVE BDigitBelow(_, _, _)
BDigitBelow(x, y, k) ==
    IF BCmp(BMulSmall(y, k), x) > 0 THEN BDigitBelow(x, y, k - 1) ELSE k

\* long division in base LimbBase of the digits i, ..., 1 of x by y, whose
\* leading digit is at least LimbBase / 2, with r < y the remainder left by
\* the digits above i and q their quotient: the next digit of the quotient
\* is estimated from the two leading digits of the running remainder cur
\* and the leading digit of y
RECURSIVE BDivFrom(_, _, _, _, _)
RECURSIVE BDivDigit(_, _, _, _, _, _)
RECURSIVE BDivNext(_, _, _, _, _, _)
BDivFrom(x, y, i, r, q) ==
    IF i = 0 THEN [q |-> BTrim(q), r |-> r]
    ELSE BDivDigit(x, y, i, q, BTrim(<<x[i]>> \o r),
                   (Limb(r, Len(y)) * LimbBase + Limb(r, Len(y) - 1)) \div y[Len(y)])

BDivDigit(x, y, i, q, cur, est) ==
    BDivNext(x, y, i, q, cur, BDigitBelow(cur, y, Min(est, LimbBase - 1)))

\* the digit k of the quotient found: a digit 0 leaves the remainder as it is
BDivNext(x, y, i, q, cur, k) ==
    IF k = 0 THEN BDivFrom(x, y, i - 1, cur, <<0>> \o q)
    ELSE BDivFrom(x, y, i - 1, BSub(cur, BMulSmall(y, k)), <<k>> \o q)

\* the remainder r of a division scaled by 2^s brought back
BDivScaled(d, s) == [q |-> d.q, r |-> BShr(d.r, s)]

\* quotient and remainder of x by y > 0, of two digits or more: both are
\* scaled by 2^s to bring the leading digit of y to LimbBase / 2 or more
BDivStart(x, y) == BDivFrom(x, y, Len(x), <<>>, <<>>)

BDivBy(x, y, s) == BDivScaled(BDivStart(BShl(x, s), BShl(y, s)), s)

BDivMod(x, y) == BDivBy(x, y, LimbBits - IntBitLen(y[Len(y)]))

\* the decimal digits of x, the most significant first, before the digits acc
RECURSIVE DigitsBefore(_, _)
DigitsBefore(x, acc) ==
    IF x = <<>> THEN acc
    ELSE DigitsBefore(BDivSmall(x, 10).q, <<BDivSmall(x, 10).r>> \o acc)

Digits(x) == DigitsBefore(x, <<>>)

\* n / 2^shift rounded to an integer, for shift > 0: to the nearest, a tie
\* (broken upwards by anything sticky below n) to the even one
RoundBump(q, c, sticky) ==
    IF c > 0 \/ (c = 0 /\ (sticky = 1 \/ BIsOdd(q))) THEN BAdd(q, <<1>>) ELSE q

RoundTie(n, shift, sticky, q) ==
    RoundBump(q, BCmp(BSub(n, BShl(q, shift)), BShl(<<1>>, shift - 1)), sticky)

RoundHalfEven(n, shift, sticky) == RoundTie(n, shift, sticky, BShr(n, shift))

-----------------------------------------------------------------------------
(* Floating-point values: IEEE 754 binary64, as Python and numpy compute.   *)
(* A double is <<sign, exponent, mantissa>>: the number                     *)
(* sign * mantissa * 2^exponent, with the mantissa an odd natural number of *)
(* at most MantBits binary digits.  The zeros have the empty mantissa and   *)
(* exponent 0; the infinities and NaN have the exponent SpecialExp.         *)

MantBits == 53          \* binary digits of a mantissa
MinExp == -1074         \* the exponent of the smallest subnormal
SpecialExp == 1024      \* every finite double is below 2^SpecialExp

NaN == <<0, SpecialExp, <<>>>>
Inf == <<1, SpecialExp, <<>>>>
NegInf == <<-1, SpecialExp, <<>>>>
NegZero == <<-1, 0, <<>>>>

IsNaN(v) == v = NaN
IsFinite(v) == v[2] # SpecialExp
IsZero(v) == v[2] # SpecialExp /\ v[3] = <<>>

\* the sign of a value that is not NaN, zeros included: -1 or 1
SignBit(v) == v[1]
Zero(s) == <<s, 0, <<>>>>
Infinity(s) == <<s, SpecialExp, <<>>>>

Abs(x) == IF x < 0 THEN -x ELSE x

\* the double s * m * 2^e for a mantissa m of at most MantBits digits: the
\* trailing zero digits tz of m go to the exponent
PackOdd(s, m, e, tz) == <<s, e + tz, BShr(m, tz)>>

Pack(s, m, e) ==
    IF m = <<>> THEN Zero(s)
    ELSE IF BitLen(m) + e > SpecialExp THEN Infinity(s)
    ELSE IF BIsOdd(m) THEN <<s, e, m>>
    ELSE PackOdd(s, m, e, TrailingZeros(m))

\* the double nearest to s * (n + f) * 2^e, where 0 <= f < 1 and f > 0 iff
\* sticky = 1 (then n has more than MantBits + 1 digits): the shift low
\* digits of n are rounded away to leave MantBits digits, or fewer below the
\* normal range, ties to the even mantissa; an infinity from 2^SpecialExp on
RoundShift(s, n, e, sticky, shift) ==
    IF shift <= 0 THEN Pack(s, n, e)
    ELSE Pack(s, RoundHalfEven(n, shift, sticky), e + shift)

RoundPack(s, n, e, sticky) ==
    RoundShift(s, n, e, sticky, Max(BitLen(n) - MantBits, MinExp - e))

\* the double nearest to s * (n / y) * 2^e, for natural numbers n > 0 and
\* odd y: the quotient is taken to MantBits + 2 digits or more (n is
\* scaled by 2^k) and the remainder is sticky
DivQuot(s, e, q, exact) == RoundPack(s, q, e, IF exact THEN 0 ELSE 1)

DivSmallQuot(s, e, d) == DivQuot(s, e, d.q, d.r = 0)
DivModQuot(s, e, d) == DivQuot(s, e, d.q, d.r = <<>>)

DivScaled(s, n, y, e, k) ==
    IF Len(y) = 1 THEN DivSmallQuot(s, e - k, BDivSmall(BShl(n, k), y[1]))
    ELSE DivModQuot(s, e - k, BDivMod(BShl(n, k), y))

DivOdd(s, n, y, e) ==
    IF y = <<1>> THEN RoundPack(s, n, e, 0)
    ELSE DivScaled(s, n, y, e, Max(0, MantBits + 3 + BitLen(y) - BitLen(n)))

\* the double nearest to s * (n / d) * 2^e, for natural numbers n, d > 0: the
\* powers of two in d go to the exponent
DivEven(s, n, d, e, tz) == DivOdd(s, n, BShr(d, tz), e - tz)

DivRound(s, n, d, e) ==
    IF BIsOdd(d) THEN DivOdd(s, n, d, e) ELSE DivEven(s, n, d, e, TrailingZeros(d))

\* the integer n as a double (exact for |n| < 2^53)
F(n) == RoundPack(IF n < 0 THEN -1 ELSE 1, BFromInt(Abs(n)), 0, 0)

\* the double nearest to n / d, for integers n and d # 0: the value of a
\* decimal literal such as 0.90 = Q(9, 10)
Q(n, d) ==
    IF n = 0 THEN Zero(1)
    ELSE DivRound(IF (n < 0) = (d < 0) THEN 1 ELSE -1, BFromInt(Abs(n)), BFromInt(Abs(d)), 0)

RECURSIVE BFromGroups(_, _)
BFromGroups(groups, i) ==
    IF i = 0 THEN <<>>
    ELSE BAdd(BMulSmall(BFromGroups(groups, i - 1), 10000), BFromInt(groups[i]))

RECURSIVE BPow10000(_)
BPow10000(i) == IF i = 0 THEN <<1>> ELSE BMulSmall(BPow10000(i - 1), 10000)

DecRatio(s, n, d) == IF n = <<>> THEN Zero(s) ELSE DivRound(s, n, d, 0)

\* the double nearest to the decimal s * (whole + 0.g1 g2 ...), the decimals
\* given in groups of four digits
Dec(s, whole, groups) ==
    DecRatio(s, BAdd(BMul(BFromInt(whole), BPow10000(Len(groups))),
                     BFromGroups(groups, Len(groups))),
             BPow10000(Len(groups)))

\* the position of the leading binary digit of a finite value that is not 0
TopBit(v) == BitLen(v[3]) + v[2]

\* sa * x * 2^e + sb * y * 2^e, for natural numbers x, y > 0
AddAligned(sa, x, sb, y, e) ==
    IF sa = sb THEN RoundPack(sa, BAdd(x, y), e, 0)
    ELSE IF x = y THEN Zero(1)
    ELSE IF BCmp(x, y) > 0 THEN RoundPack(sa, BSub(x, y), e, 0)
    ELSE RoundPack(sb, BSub(y, x), e, 0)

AddAt(a, b, e) == AddAligned(a[1], BShl(a[3], a[2] - e), b[1], BShl(b[3], b[2] - e), e)

\* x + y: (-0) + (-0) is -0, every other sum that is zero is +0; an operand
\* below a quarter of the last place of the other leaves the other unchanged
FAdd(a, b) ==
    IF IsNaN(a) \/ IsNaN(b) THEN NaN
    ELSE IF IsFinite(a) /\ IsFinite(b) THEN
        IF IsZero(a) /\ IsZero(b)
        THEN (IF a = NegZero /\ b = NegZero THEN NegZero ELSE Zero(1))
        ELSE IF IsZero(a) THEN b
        ELSE IF IsZero(b) THEN a
        ELSE IF TopBit(a) > TopBit(b) + MantBits + 2 THEN a
        ELSE IF TopBit(b) > TopBit(a) + MantBits + 2 THEN b
        ELSE AddAt(a, b, Min(a[2], b[2]))
    ELSE IF IsFinite(a) THEN b
    ELSE IF IsFinite(b) THEN a
    ELSE IF a = b THEN a ELSE NaN

FNeg(a) == IF IsNaN(a) THEN NaN ELSE <<-a[1], a[2], a[3]>>
FSub(a, b) == FAdd(a, FNeg(b))

\* x * y: 0 * inf is nan, a zero product takes the product of the signs
FMul(a, b) ==
    IF IsNaN(a) \/ IsNaN(b) THEN NaN
    ELSE IF IsFinite(a) /\ IsFinite(b) THEN
        IF IsZero(a) \/ IsZero(b) THEN Zero(a[1] * b[1])
        ELSE RoundPack(a[1] * b[1], BMul(a[3], b[3]), a[2] + b[2], 0)
    ELSE IF IsZero(a) \/ IsZero(b) THEN NaN
    ELSE Infinity(a[1] * b[1])

\* numpy float division x / y: x/0 is +-inf with the sign of x times the
\* sign of the zero, 0/0 and inf/inf are nan, x/inf is a signed zero, and
\* otherwise the double nearest to the exact quotient of the operands
FDiv(a, b) ==
    IF IsNaN(a) \/ IsNaN(b) THEN NaN
    ELSE IF IsFinite(b) THEN
        IF IsZero(b) THEN (IF IsZero(a) THEN NaN ELSE Infinity(a[1] * b[1]))
        ELSE IF ~IsFinite(a) THEN Infinity(a[1] * b[1])
        ELSE IF IsZero(a) THEN Zero(a[1] * b[1])
        ELSE DivRound(a[1] * b[1], a[3], b[3], a[2] - b[2])
    ELSE IF IsFinite(a) THEN Zero(a[1] * b[1])
    ELSE NaN

\* -1, 0, 1 as |a| < |b|, |a| = |b|, |a| > |b|, for a and b not NaN
MagCmp(a, b) ==
    IF ~IsFinite(a) \/ ~IsFinite(b)
    THEN (IF IsFinite(b) THEN 1 ELSE IF IsFinite(a) THEN -1 ELSE 0)
    ELSE IF IsZero(a) \/ IsZero(b)
    THEN (IF ~IsZero(a) THEN 1 ELSE IF ~IsZero(b) THEN -1 ELSE 0)
    ELSE IF TopBit(a) # TopBit(b) THEN (IF TopBit(a) > TopBit(b) THEN 1 ELSE -1)
    ELSE BCmp(BShl(a[3], a[2] - Min(a[2], b[2])), BShl(b[3], b[2] - Min(a[2], b[2])))

\* -1, 0, 1 as v < 0, v = 0 (either zero), v > 0, for v not NaN
Sgn(v) == IF IsZero(v) THEN 0 ELSE v[1]

\* -1, 0, 1 as a < b, a = b, a > b, for a and b not NaN; the two zeros are equal
FCmp(a, b) ==
    IF Sgn(a) # Sgn(b) THEN (IF Sgn(a) > Sgn(b) THEN 1 ELSE -1)
    ELSE Sgn(a) * MagCmp(a, b)

\* a > b and a < b on floats: every comparison with NaN is false
FGt(a, b) == ~IsNaN(a) /\ ~IsNaN(b) /\ FCmp(a, b) > 0
FLt(a, b) == FGt(b, a)

\* a == b on floats
FEq(a, b) == ~IsNaN(a) /\ ~IsNaN(b) /\ FCmp(a, b) = 0

-----------------------------------------------------------------------------
(* DataFrames *)

EmptyFrame == [index |-> <<>>, cols |-> <<>>]          \* pd.DataFrame()

NRows(t) == Len(t.index)
Columns(t) == DOMAIN t.cols
IsEmpty(t) == NRows(t) = 0 \/ Columns(t) = {}          \* DataFrame.empty

\* s[-n:] on a sequence: the last min(n, len) items; -0 is 0, so s[-0:] is s
TailSeq(s, n) ==
    IF n = 0 THEN s ELSE SubSeq(s, Max(1, Len(s) - n + 1), Len(s))

\* a slice taken from the wrong end: df.iloc[:n]
ILocHead(t, n) ==
    [index |-> SubSeq(t.index, 1, Min(n, NRows(t))),
     cols  |-> [c \in Columns(t) |-> SubSeq(t.cols[c], 1, Min(n, NRows(t)))]]

\* df.iloc[-n:]
ILocTail(t, n) ==
    [index |-> TailSeq(t.index, n),
     cols  |-> [c \in Columns(t) |-> TailSeq(t.cols[c], n)]]

\* df.iloc[-k] for k >= 1: the row as a record, or IndexError when out of bounds
RowFromEnd(t, k) == [c \in Columns(t) |-> t.cols[c][NRows(t) - k + 1]]

\* df[name] = series
WithColumn(t, name, series) ==
    [index |-> t.index,
     cols  |-> [c \in Columns(t) \cup {name} |->
                    IF c = name THEN series ELSE t.cols[c]]]

\* Series.ffill(): a missing value takes the last value present before it
RECURSIVE FFillFrom(_, _, _)
FFillFrom(s, i, last) ==
    IF i > Len(s) THEN <<>>
    ELSE LET v == IF IsNaN(s[i]) THEN last ELSE s[i]
         IN  <<v>> \o FFillFrom(s, i + 1, v)
FFill(s) == FFillFrom(s, 1, NaN)

Reverse(s) == [i \in 1..Len(s) |-> s[Len(s) - i + 1]]

\* Series.bfill(): a missing value takes the next value present after it
BFill(s) == Reverse(FFill(Reverse(s)))

\* line 77: df.ffill().bfill()
FillGaps(t) ==
    [index |-> t.index,
     cols  |-> [c \in Columns(t) |-> BFill(FFill(t.cols[c]))]]

-----------------------------------------------------------------------------
(* load_data, lines 28-82 *)

(* What yf.download did: it raised, or it returned raw_data.  raw_data is  *)
(* [multi, frame]: with MultiIndex columns (multi) frame maps each field   *)
(* of level 0 ("Close", "Adj Close", ...) to the table of that field, one  *)
(* column per ticker; with flat columns frame is the table itself.         *)
NoRaw == [multi |-> FALSE, frame |-> EmptyFrame]
Raised == [kind |-> "raise", raw |-> NoRaw]
Returned(raw) == [kind |-> "table", raw |-> raw]

MultiRaw(fields) == [multi |-> TRUE, frame |-> fields]
FlatRaw(t) == [multi |-> FALSE, frame |-> t]

\* raw_data.empty
RawEmpty(raw) ==
    IF raw.multi
    THEN \A f \in DOMAIN raw.frame : IsEmpty(raw.frame[f])
    ELSE IsEmpty(raw.frame)

Failed(why) == [ok |-> FALSE, frame |-> EmptyFrame, why |-> why]
Selected(t) == [ok |-> TRUE, frame |-> t, why |-> ""]

\* lines 41-50: the closing prices, Close before Adj Close.  xs('Close') on a
\* table without that field raises KeyError.  With flat columns and a column
\* named Close, raw_data['Close'] is a Series, and Series.rename(columns=...)
\* on line 59 raises TypeError.
SelectClose(raw) ==
    IF raw.multi THEN
        IF "Close" \in DOMAIN raw.frame THEN Selected(raw.frame["Close"])
        ELSE IF "Adj Close" \in DOMAIN raw.frame THEN Selected(raw.frame["Adj Close"])
        ELSE Failed("KeyError")
    ELSE IF "Close" \in Columns(raw.frame) THEN Failed("TypeError")
    ELSE Selected(raw.frame)

\* lines 53-58
RenameOf(c) ==
    CASE c = "^TNX" -> "US_Treasury_10Y"
      [] c = "MXN=X" -> "USD_MXN"
      [] c = "EURUSD=X" -> "EUR_USD_Exchange"
      [] OTHER -> c

\* line 59: df.rename(columns=rename_map)
Rename(t) ==
    [index |-> t.index,
     cols  |-> [n \in {RenameOf(c) : c \in Columns(t)} |->
                    t.cols[CHOOSE c \in Columns(t) : RenameOf(c) = n]]]

\* the operands of the division swapped: x / 1
RecipSwapped(v) == FDiv(v, F(1))

\* line 66: 1 / x, the double nearest to the reciprocal of the quote
Recip(v) == FDiv(F(1), v)
Inverse(series) == [i \in 1..Len(series) |-> Recip(series[i])]

\* line 72: np.linspace(10.5, 11.25, n)[i - 1]: start + (i - 1) * step with
\* step = (stop - start) / (n - 1), and the last item set to stop
TrendStart == Q(21, 2)
TrendStop == Q(45, 4)
Trend(i, n) ==
    LET step == FDiv(FSub(TrendStop, TrendStart), F(n - 1))
    IN  IF n = 1 THEN TrendStart
        ELSE IF i = n THEN TrendStop
        ELSE FAdd(FMul(F(i - 1), step), TrendStart)

\* line 71: np.random.seed(42): the first ten standard normal draws of the
\* generator (the same prefix for every n)
GaussDraws ==
    <<<<1, 0, <<4967, 1415, 3011, 2327>>>>,
      <<-1, 0, <<1382, 6430, 1171, 1846, 6000>>>>,
      <<1, 0, <<6476, 8853, 8100, 6925>>>>,
      <<1, 1, <<5230, 2985, 6408, 254>>>>,
      <<-1, 0, <<2341, 5337, 4723, 3359, 7000>>>>,
      <<-1, 0, <<2341, 3695, 6949, 1805, 5000>>>>,
      <<1, 1, <<5792, 1281, 5507, 3915>>>>,
      <<1, 0, <<7674, 3472, 9152, 9088>>>>,
      <<-1, 0, <<4694, 7438, 5934, 9521>>>>,
      <<1, 0, <<5425, 6004, 3585, 9647>>>>>>

Gauss == [i \in 1..Len(GaussDraws) |->
             Dec(GaussDraws[i][1], GaussDraws[i][2], GaussDraws[i][3])]

\* line 73: np.random.normal(0, 0.05, n)[i - 1] = loc + scale * draw
Normal == [i \in 1..Len(Gauss) |-> FAdd(F(0), FMul(Q(1, 20), Gauss[i]))]
Noise(i) == Normal[i]

\* line 74
Cetes(n) == [i \in 1..n |-> FAdd(Trend(i, n), Noise(i))]

\* lines 66-78 on the renamed table
Transform(t) ==
    LET a == WithColumn(t, "USD_EUR", Inverse(t.cols["EUR_USD_Exchange"]))
        b == WithColumn(a, "CETES_28", Cetes(NRows(t)))
    IN  FillGaps(b)

ErrNoData == "Error: Yahoo Finance no devolvio datos"
ErrETL == "Error critico en ETL"

\* the body of load_data: the table returned and the st.error calls made
LoadData(outcome) ==
    IF outcome.kind = "raise" THEN [value |-> EmptyFrame, msgs |-> <<ErrETL>>]
    ELSE IF RawEmpty(outcome.raw) THEN [value |-> EmptyFrame, msgs |-> <<ErrNoData>>]
    ELSE LET sel == SelectClose(outcome.raw) IN
         IF ~sel.ok THEN [value |-> EmptyFrame, msgs |-> <<ErrETL>>]
         ELSE LET t == Rename(sel.frame) IN
              IF "EUR_USD_Exchange" \notin Columns(t)         \* KeyError, line 66
              THEN [value |-> EmptyFrame, msgs |-> <<ErrETL>>]
              ELSE [value |-> Transform(t), msgs |-> <<>>]
-----------------------------------------------------------------------------
(* st.cache_data(ttl=3600), line 27.  load_data takes no argument, so a     *)
(* cache object holds at most one entry: the return value, the st.error     *)
(* calls to replay on a hit, and the time the entry expires.  The cache is  *)
(* shared by all sessions.  A call that misses computes the value under the *)
(* lock of the entry, so that other calls wait for it instead of computing  *)
(* it too, and reads the cache again once it holds the lock.                *)
(* st.cache_data.clear() empties the cache object and drops it: later calls *)
(* get a new object with a new lock, while the calls that started before    *)
(* the clear keep the object they started on: they wait for its lock and    *)
(* read and store its entry.                                                *)

\* at: when the entry was stored, -1 for no entry (history); holders: the
\* sessions whose df is the very object that the entry keeps
NoEntry ==
    [present |-> FALSE, value |-> EmptyFrame, msgs |-> <<>>, expires |-> 0,
     at |-> -1, holders |-> {}]

\* a cache without time-to-live
CacheFreshForever(c, t) == c.present

\* a read at time t can find the entry: before its expiry time, and at that
\* very instant too (cachetools 4 still serves the entry then)
CacheFresh(c, t) == c.present /\ t <= c.expires

\* a read at time t can find no entry: after its expiry time, and at that very
\* instant too (cachetools 5 has expired the entry by then)
CacheStale(c, t) == ~c.present \/ t >= c.expires

\* the entry stored at time t for the result r of load_data; keeps: the
\* caller, when the cache keeps the object it returns to the caller
StoreEntry(r, t, keeps) ==
    [present |-> TRUE, value |-> r.value, msgs |-> r.msgs, expires |-> t + TTL,
     at |-> t, holders |-> keeps]

\* st.cache_data.clear(), line 108
ClearCache(c) == NoEntry

\* nobody holds the lock of the entry
Free == "free"

-----------------------------------------------------------------------------
(* get_alerts, lines 115-128 *)

\* "%.<k>f" % v and f"{v:.<k>f}": the sign, and the decimal digits of the
\* magnitude rounded to k decimals, the last k of them after the point; the
\* exact value of the double is rounded, a tie to the even neighbour
Pow10(k) == IF k = 2 THEN 100 ELSE 1000

\* x * 2^e rounded to an integer
FmtUnits(x, e) == IF e >= 0 THEN BShl(x, e) ELSE RoundHalfEven(x, -e, 0)

\* the digits ds with zeros before them up to n digits
FmtPad(ds, n) == Zeros(n - Len(ds)) \o ds

Fmt(v, k) ==
    IF IsNaN(v) THEN [text |-> "nan", neg |-> FALSE, digits |-> <<>>]
    ELSE IF ~IsFinite(v) THEN [text |-> "inf", neg |-> SignBit(v) < 0, digits |-> <<>>]
    ELSE [text |-> "num", neg |-> SignBit(v) < 0,
          digits |-> FmtPad(Digits(FmtUnits(BMulSmall(v[3], Pow10(k)), v[2])), k + 1)]

Alert(tag, limit, actual) == [tag |-> tag, limit |-> limit, actual |-> Fmt(actual, 2)]

\* the comparisons made inclusive: >= and <=
get_alerts_inclusive(current_data, lim) ==
    LET last == RowFromEnd(current_data, 1)
        ge(a, b) == FGt(a, b) \/ FEq(a, b)
        a1 == IF ge(last["USD_MXN"], lim.usd_mxn)
              THEN <<Alert("CRITICO", lim.usd_mxn, last["USD_MXN"])>> ELSE <<>>
        a2 == IF ge(last["US_Treasury_10Y"], lim.treasury)
              THEN <<Alert("ALERTA", lim.treasury, last["US_Treasury_10Y"])>> ELSE <<>>
        a3 == IF ge(lim.usd_eur, last["USD_EUR"])
              THEN <<Alert("AVISO", lim.usd_eur, last["USD_EUR"])>> ELSE <<>>
    IN  a1 \o a2 \o a3

get_alerts(current_data, lim) ==
    LET last == RowFromEnd(current_data, 1)
        a1 == IF FGt(last["USD_MXN"], lim.usd_mxn)
              THEN <<Alert("CRITICO", lim.usd_mxn, last["USD_MXN"])>> ELSE <<>>
        a2 == IF FGt(last["US_Treasury_10Y"], lim.treasury)
              THEN <<Alert("ALERTA", lim.treasury, last["US_Treasury_10Y"])>> ELSE <<>>
        a3 == IF FLt(last["USD_EUR"], lim.usd_eur)
              THEN <<Alert("AVISO", lim.usd_eur, last["USD_EUR"])>> ELSE <<>>
    IN  a1 \o a2 \o a3

\* lines 102-104: the defaults of the three number inputs
DefaultLimits == [usd_mxn |-> Q(41, 2), treasury |-> Q(9, 2), usd_eur |-> Q(9, 10)]

-----------------------------------------------------------------------------
(* KPIs, lines 148-162 *)

\* show_kpi: the value and the delta to the previous row, as displayed
show_kpi(current, prev, key, decimals) ==
    [val |-> Fmt(current[key], decimals), delta |-> Fmt(FSub(current[key], prev[key]), 2)]

KpiKeys == {"USD_MXN", "USD_EUR", "CETES_28", "US_Treasury_10Y"}

Kpis(t) ==
    LET current == RowFromEnd(t, 1)
        prev == RowFromEnd(t, 2)
    IN  [key \in KpiKeys |->
            show_kpi(current, prev, key, IF key = "USD_EUR" THEN 3 ELSE 2)]

-----------------------------------------------------------------------------
(* Relative-performance index, lines 252-257 *)

\* series / series.iloc[0] * 100
Base100(series) == [i \in 1..Len(series) |-> FMul(FDiv(series[i], series[1]), F(100))]

\* the running sum acc + s[i] + ... + s[Len(s)], added from left to right
RECURSIVE SumFrom(_, _, _)
SumFrom(s, i, acc) == IF i > Len(s) THEN acc ELSE SumFrom(s, i + 1, FAdd(acc, s[i]))

\* DataFrame.mean(axis=1) of one row: the missing values count as 0 in the
\* sum, which is divided by the number of values present
MeanOf(filled, count) ==
    IF count = 0 THEN NaN ELSE FDiv(SumFrom(filled, 2, filled[1]), F(count))

MeanSkipNa(values) ==
    MeanOf([i \in 1..Len(values) |-> IF IsNaN(values[i]) THEN F(0) ELSE values[i]],
           Cardinality({i \in 1..Len(values) : ~IsNaN(values[i])}))

\* row i of the columns names, each rebased to 100 at its first row
RECURSIVE Base100Row(_, _, _)
Base100Row(t, names, i) ==
    IF names = <<>> THEN <<>>
    ELSE <<Base100(t.cols[Head(names)])[i]>> \o Base100Row(t, Tail(names), i)

IndexTradicional(t) ==
    [i \in 1..NRows(t) |-> MeanSkipNa(Base100Row(t, CHOSEN_FIVE, i))]

\* lines 254 and 257: the two columns written into df_filtered
WithIndexes(t) ==
    WithColumn(WithColumn(t, "Index_Tradicional", IndexTradicional(t)),
               "Index_NVDA", Base100(t.cols["NVDA"]))

\* line 99: whether df.iloc[-n:] is the DataFrame df itself, when the slice
\* covers every row
SliceIsSelfWhenWhole(t, n) == n >= NRows(t)

\* line 99: whether df.iloc[-n:] is the DataFrame df itself: a slice is a new
\* DataFrame for every n, so a column added to it is not added to df
SliceIsSelf(t, n) == FALSE

\* an entry after a pass has written the table written into its window: the
\* writes land in the object the entry keeps when that object is the df of
\* the pass (holds) and df is its window (reach)
EntryAfterWrites(c, holds, reach, written) ==
    IF reach /\ holds /\ c.present THEN [c EXCEPT !.value = written] ELSE c

-----------------------------------------------------------------------------
(* The inputs the runs draw from: what the Fetcher may return and what the  *)
(* widgets may be set to.                                                   *)

Position(c) == CHOOSE k \in 1..Len(ALL_TICKERS) : ALL_TICKERS[k] = c

\* closing values of day i: the stocks start at 128 and grow at different
\* rates; USD/MXN is quoted 20.47, 20.59, ..., the 10Y rate 4.38, 4.46, ...
\* and EUR/USD 1.08, 1.09, ...
Quote(c, i) ==
    CASE c = "MXN=X" -> Q(2035 + 12 * i, 100)
      [] c = "^TNX" -> Q(430 + 8 * i, 100)
      [] c = "EURUSD=X" -> Q(107 + i, 100)
      [] OTHER -> F(128 + 8 * (i - 1) * Position(c))

\* a table of n days, one column per ticker, the cells in gaps missing and the
\* last row of the columns in lastRow overridden
TickerFrame(n, gaps, lastRow) ==
    [index |-> [i \in 1..n |-> i],
     cols  |-> [c \in Range(ALL_TICKERS) |-> [i \in 1..n |->
                    IF <<c, i>> \in gaps THEN NaN
                    ELSE IF i = n /\ c \in DOMAIN lastRow THEN lastRow[c]
                    ELSE Quote(c, i)]]]

NoOverride == [c \in {} |-> NaN]

Halved(t) ==
    [index |-> t.index,
     cols  |-> [c \in Columns(t) |-> [i \in 1..NRows(t) |-> FMul(t.cols[c][i], Q(1, 2))]]]

Without(t, name) ==
    [index |-> t.index, cols |-> [c \in Columns(t) \ {name} |-> t.cols[c]]]

NoRows(t) == [index |-> <<>>, cols |-> [c \in Columns(t) |-> <<>>]]

Shapes == {"close", "both", "adj", "neither", "flat", "flatclose", "noeur", "norows"}

ShapeRaw(shape, t) ==
    CASE shape = "close" -> MultiRaw([f \in {"Close", "Open"} |-> IF f = "Close" THEN t ELSE Halved(t)])
      [] shape = "both" -> MultiRaw([f \in {"Close", "Adj Close"} |-> IF f = "Close" THEN t ELSE Halved(t)])
      [] shape = "adj" -> MultiRaw([f \in {"Adj Close", "Open"} |-> IF f = "Open" THEN t ELSE Halved(t)])
      [] shape = "neither" -> MultiRaw([f \in {"Open"} |-> t])
      [] shape = "flat" -> FlatRaw(t)
      [] shape = "flatclose" -> FlatRaw(WithColumn(t, "Close", t.cols["NVDA"]))
      [] shape = "noeur" -> MultiRaw([f \in {"Close"} |-> Without(t, "EURUSD=X")])
      [] shape = "norows" -> MultiRaw([f \in {"Close"} |-> NoRows(t)])

FetchKindOf(o) ==
    IF o.kind = "raise" THEN "raise"
    ELSE IF RawEmpty(o.raw) THEN "empty" ELSE "table"

\* what a call of load_data does once yf.download is back with outcome o:
\* what the Fetcher did, and the result of lines 36-82
Load(o) == [kind |-> FetchKindOf(o), result |-> LoadData(o)]

\* the pipeline runs: the fetch raises, returns nothing, or returns one day
\* or MaxRows days; the widgets stay at their defaults
PipeOutcomes ==
    {Raised, Returned(ShapeRaw("norows", TickerFrame(1, {}, NoOverride)))}
    \cup {Returned(ShapeRaw("close", TickerFrame(n, {}, NoOverride))) : n \in {1, MaxRows}}
PipeLoads == {Load(o) : o \in PipeOutcomes}
PipeWindows == {SliderDefault}
PipeLimits == {DefaultLimits}

\* the aliasing runs: the fetch returns MaxRows days; the cache hands out the
\* object it keeps, or a copy
AliasOutcomes == {Returned(ShapeRaw("close", TickerFrame(MaxRows, {}, NoOverride)))}
AliasLoads == {Load(o) : o \in AliasOutcomes}
PipeHandouts == BOOLEAN

\* the cache runs: the fetch raises or returns MaxRows days; the cache hands
\* out copies
CacheOutcomes ==
    {Raised, Returned(ShapeRaw("close", TickerFrame(MaxRows, {}, NoOverride)))}
CacheLoads == {Load(o) : o \in CacheOutcomes}
Copies == {FALSE}

-----------------------------------------------------------------------------
(* The cache objects *)

\* the session is inside load_data: waiting for the lock, or computing
InCall(s) == pc[s] \in {"waiting", "fetching"}

\* the call of the session started before a clear, on an object dropped since
OnDropped(s) == \E d \in dropped : s \in d.calls

\* the cache object in use: the calls running on it, its lock and its entry
LiveObject ==
    [calls |-> {s \in Sessions : InCall(s) /\ ~OnDropped(s)},
     lock |-> lock, entry |-> cache]

\* the cache object that the call of session s reads, locks and stores to
ObjectOf(s) ==
    IF OnDropped(s) THEN CHOOSE d \in dropped : s \in d.calls ELSE LiveObject

\* the object of the call of s after a step of that call: the calls left on
\* it, the holder of its lock and its entry.  A dropped object that no call
\* uses any more is gone.
Put(s, calls, holder, entry) ==
    IF OnDropped(s)
    THEN /\ dropped' = (dropped \ {ObjectOf(s)})
                          \cup (IF calls = {} THEN {}
                                ELSE {[calls |-> calls, lock |-> holder, entry |-> entry]})
         /\ UNCHANGED <<cache, lock>>
    ELSE /\ cache' = entry
         /\ lock' = holder
         /\ UNCHANGED dropped

\* the entry e once the session s holds the object it keeps (own), or a copy
Held(e, s, own) == IF own THEN [e EXCEPT !.holders = @ \cup {s}] ELSE e

\* the entry e once the session s has let go of the table it held
Released(e, s) == [e EXCEPT !.holders = @ \ {s}]

\* the df of sessions s and t is one object: both hold the object of an entry
SameObject(s, t) ==
    \/ {s, t} \subseteq cache.holders
    \/ \E d \in dropped : {s, t} \subseteq d.entry.holders

-----------------------------------------------------------------------------
(* The script, one action per step of a pass of session s *)

Unset == EmptyFrame
NoLimits == [usd_mxn |-> NaN, treasury |-> NaN, usd_eur |-> NaN]
NoKpis == [key \in {} |-> 0]

NoLoad == [at |-> -1, kind |-> "none", value |-> EmptyFrame]

Init ==
    /\ now = 0
    /\ cache = NoEntry
    /\ lock = Free
    /\ dropped = {}
    /\ pc = [s \in Sessions |-> "idle"]
    /\ df = [s \in Sessions |-> Unset]
    /\ days_window = [s \in Sessions |-> 0]
    /\ df_filtered = [s \in Sessions |-> Unset]
    /\ limits = [s \in Sessions |-> NoLimits]
    /\ active_alerts = [s \in Sessions |-> <<>>]
    /\ kpis = [s \in Sessions |-> NoKpis]
    /\ messages = [s \in Sessions |-> <<>>]
    /\ stale = [s \in Sessions |-> FALSE]
    /\ ran = [s \in Sessions |-> {}]
    /\ fetchKind = [s \in Sessions |-> "none"]
    /\ hit = [s \in Sessions |-> "none"]
    /\ lastLoad = NoLoad
    /\ lastFailure = -1

\* the script of the session is not running: it ended, st.stop() ended it,
\* or an exception did
Resting(s) == pc[s] \in {"idle", "done", "stopped", "raised"}

\* the page of a session whose script has ended shows what that run
\* displayed and nothing older
Finished(p) == p \in {"done", "stopped", "raised"}

\* the script of session s is run from the top: its names are unbound (the
\* tables of the last run are let go), nothing is displayed by the new run
\* yet, and the page keeps what the last run displayed
Rebind(s) ==
    /\ pc' = [pc EXCEPT ![s] = "load"]
    /\ df' = [df EXCEPT ![s] = Unset]
    /\ days_window' = [days_window EXCEPT ![s] = 0]
    /\ df_filtered' = [df_filtered EXCEPT ![s] = Unset]
    /\ limits' = [limits EXCEPT ![s] = NoLimits]
    /\ active_alerts' = [active_alerts EXCEPT ![s] = <<>>]
    /\ kpis' = [kpis EXCEPT ![s] = NoKpis]
    /\ messages' = [messages EXCEPT ![s] = <<>>]
    /\ stale' = [stale EXCEPT ![s] = @ \/ "display" \in ran[s]]
    /\ ran' = [ran EXCEPT ![s] = {}]
    /\ fetchKind' = [fetchKind EXCEPT ![s] = "none"]
    /\ hit' = [hit EXCEPT ![s] = "none"]

\* the dropped cache objects once session s has let go of its table
ReleasedAll(s) == {[d EXCEPT !.entry = Released(d.entry, s)] : d \in dropped}

\* an interaction of a session whose script is not running, or the rerun
\* that follows a pass abandoned inside load_data
StartPass(s) ==
    /\ Resting(s) \/ pc[s] = "rerun"
    /\ Rebind(s)
    /\ cache' = Released(cache, s)
    /\ dropped' = ReleasedAll(s)
    /\ UNCHANGED <<now, lock, lastLoad, lastFailure>>

\* lines 89-90: st.stop() on an empty table
AfterLoad(t) == IF IsEmpty(t) THEN "stopped" ELSE "sidebar"

\* load_data() reads the cache: when it is called, and again once it holds
\* the lock it waited for
AtCacheRead(s) == pc[s] = "load" \/ (pc[s] = "waiting" /\ ObjectOf(s).lock = Free)

\* line 86 on a cache hit: the cached value and the replay of its st.error calls
LoadDataHit(s, handouts) ==
    /\ AtCacheRead(s)
    /\ CacheFresh(ObjectOf(s).entry, now)
    /\ \E own \in handouts :
          Put(s, ObjectOf(s).calls \ {s}, ObjectOf(s).lock, Held(ObjectOf(s).entry, s, own))
    /\ df' = [df EXCEPT ![s] = ObjectOf(s).entry.value]
    /\ messages' = [messages EXCEPT ![s] = @ \o ObjectOf(s).entry.msgs]
    /\ pc' = [pc EXCEPT ![s] = AfterLoad(ObjectOf(s).entry.value)]
    /\ stale' = [stale EXCEPT ![s] = @ /\ ~Finished(AfterLoad(ObjectOf(s).entry.value))]
    /\ hit' = [hit EXCEPT ![s] = IF OnDropped(s) THEN "dropped" ELSE "cache"]
    /\ UNCHANGED <<now, days_window, df_filtered, limits, active_alerts, kpis, ran,
                   fetchKind, lastLoad, lastFailure>>

\* line 86 on a hit of a stored failure, a rerun request pending: the replay
\* of the st.error call raises RerunException and load_data does not return
LoadDataHitAbandoned(s) ==
    /\ AtCacheRead(s)
    /\ CacheFresh(ObjectOf(s).entry, now)
    /\ ObjectOf(s).entry.msgs # <<>>
    /\ Put(s, ObjectOf(s).calls \ {s}, ObjectOf(s).lock, ObjectOf(s).entry)
    /\ pc' = [pc EXCEPT ![s] = "rerun"]
    /\ hit' = [hit EXCEPT ![s] = IF OnDropped(s) THEN "dropped" ELSE "cache"]
    /\ UNCHANGED <<now, df, days_window, df_filtered, limits, active_alerts, kpis,
                   messages, stale, ran, fetchKind, lastLoad, lastFailure>>

\* line 86 on a miss while another session computes the value: the call
\* blocks on the lock of the entry
LoadDataWait(s) ==
    /\ pc[s] = "load"
    /\ CacheStale(cache, now)
    /\ lock # Free
    /\ pc' = [pc EXCEPT ![s] = "waiting"]
    /\ UNCHANGED <<now, cache, lock, dropped, df, days_window, df_filtered, limits,
                   active_alerts, kpis, messages, stale, ran, fetchKind, hit,
                   lastLoad, lastFailure>>

\* line 86 on a miss: the session takes the lock of the entry and the body of
\* load_data starts; line 34 waits for yf.download
LoadDataBegin(s) ==
    /\ AtCacheRead(s)
    /\ CacheStale(ObjectOf(s).entry, now)
    /\ ObjectOf(s).lock = Free
    /\ Put(s, ObjectOf(s).calls \cup {s}, s, ObjectOf(s).entry)
    /\ pc' = [pc EXCEPT ![s] = "fetching"]
    /\ fetchKind' = [fetchKind EXCEPT ![s] = "pending"]
    /\ UNCHANGED <<now, df, days_window, df_filtered, limits, active_alerts, kpis,
                   messages, stale, ran, hit, lastLoad, lastFailure>>

FailedAt(kind, t, before) == IF kind \in {"raise", "empty"} THEN t ELSE before

\* the result r of load_data is stored in the object of the call, with the
\* time of the store, and handed to the pass
Store(s, r, kind, own) ==
    /\ Put(s, ObjectOf(s).calls \ {s}, Free, StoreEntry(r, now, IF own THEN {s} ELSE {}))
    /\ lastLoad' = IF OnDropped(s) THEN lastLoad
                   ELSE [at |-> now, kind |-> kind, value |-> r.value]
    /\ lastFailure' = FailedAt(kind, now, lastFailure)
    /\ df' = [df EXCEPT ![s] = r.value]
    /\ messages' = [messages EXCEPT ![s] = @ \o r.msgs]
    /\ pc' = [pc EXCEPT ![s] = AfterLoad(r.value)]
    /\ stale' = [stale EXCEPT ![s] = @ /\ ~Finished(AfterLoad(r.value))]
    /\ fetchKind' = [fetchKind EXCEPT ![s] = kind]

\* lines 34-82 and 86-90 once yf.download is back: the rest of load_data
\* runs and its result is stored.  The result of a call that a clear has
\* overtaken goes to the dropped cache object.
LoadDataMiss(s, loads, handouts) ==
    /\ pc[s] = "fetching"
    /\ \E l \in loads, own \in handouts : Store(s, l.result, l.kind, own)
    /\ UNCHANGED <<now, days_window, df_filtered, limits, active_alerts, kpis, ran, hit>>

\* lines 37 and 81 with a rerun request pending: st.error raises
\* RerunException, which "except Exception" does not catch; load_data does
\* not return, nothing is shown and nothing is stored
LoadDataAbandoned(s, loads) ==
    /\ pc[s] = "fetching"
    /\ \E l \in loads :
          /\ l.result.msgs # <<>>
          /\ fetchKind' = [fetchKind EXCEPT ![s] = l.kind]
          /\ lastFailure' = FailedAt(l.kind, now, lastFailure)
    /\ Put(s, ObjectOf(s).calls \ {s}, Free, ObjectOf(s).entry)
    /\ pc' = [pc EXCEPT ![s] = "rerun"]
    /\ UNCHANGED <<now, df, days_window, df_filtered, limits, active_alerts, kpis,
                   messages, stale, ran, hit, lastLoad>>

\* lines 95-104: the window and the three limits
Widgets(s, windows, limitSets) ==
    /\ \E n \in windows, lim \in limitSets :
          /\ days_window' = [days_window EXCEPT ![s] = n]
          /\ df_filtered' = [df_filtered EXCEPT ![s] = ILocTail(df[s], n)]
          /\ limits' = [limits EXCEPT ![s] = lim]
    /\ ran' = [ran EXCEPT ![s] = @ \cup {"window"}]

\* lines 95-107, the button not pressed
Sidebar(s, windows, limitSets) ==
    /\ pc[s] = "sidebar"
    /\ Widgets(s, windows, limitSets)
    /\ pc' = [pc EXCEPT ![s] = "alerts"]
    /\ UNCHANGED <<now, cache, lock, dropped, df, active_alerts, kpis, messages,
                   stale, fetchKind, hit, lastLoad, lastFailure>>

\* the object dropped by a clear: the cache object in use, emptied, when
\* calls are running on it
Dropping ==
    IF LiveObject.calls = {} THEN {}
    ELSE {[calls |-> LiveObject.calls, lock |-> lock, entry |-> ClearCache(cache)]}

\* lines 95-109, the button pressed: the cache is emptied and its object
\* dropped, and st.rerun() abandons the pass: the script is run from the top
ManualRefresh(s) ==
    /\ pc[s] = "sidebar"
    /\ Rebind(s)
    /\ cache' = ClearCache(cache)
    /\ lock' = Free
    /\ dropped' = ReleasedAll(s) \cup Dropping
    /\ lastLoad' = NoLoad
    /\ UNCHANGED <<now, lastFailure>>

\* an st.* call of lines 95-109, 136-162 or 167-262 finds a rerun request
\* queued by an interaction of the session: the pass is abandoned there and
\* the script is run from the top
Interrupt(s) ==
    /\ pc[s] \in {"sidebar", "kpi", "tabs"}
    /\ Rebind(s)
    /\ cache' = Released(cache, s)
    /\ dropped' = ReleasedAll(s)
    /\ UNCHANGED <<now, lock, lastLoad, lastFailure>>

\* line 131
Alerts(s) ==
    /\ pc[s] = "alerts"
    /\ active_alerts' = [active_alerts EXCEPT ![s] = get_alerts(df_filtered[s], limits[s])]
    /\ ran' = [ran EXCEPT ![s] = @ \cup {"alerts"}]
    /\ pc' = [pc EXCEPT ![s] = "kpi"]
    /\ UNCHANGED <<now, cache, lock, dropped, df, days_window, df_filtered, limits,
                   kpis, messages, stale, fetchKind, hit, lastLoad, lastFailure>>

\* lines 136-162: the alerts are displayed; df_filtered.iloc[-2] raises
\* IndexError on a one-row window
KpiStep(s) ==
    /\ pc[s] = "kpi"
    /\ IF NRows(df_filtered[s]) < 2
       THEN /\ pc' = [pc EXCEPT ![s] = "raised"]
            /\ ran' = [ran EXCEPT ![s] = @ \cup {"display"}]
            /\ stale' = [stale EXCEPT ![s] = FALSE]
            /\ UNCHANGED kpis
       ELSE /\ kpis' = [kpis EXCEPT ![s] = Kpis(df_filtered[s])]
            /\ ran' = [ran EXCEPT ![s] = @ \cup {"display", "kpi"}]
            /\ pc' = [pc EXCEPT ![s] = "tabs"]
            /\ UNCHANGED stale
    /\ UNCHANGED <<now, cache, lock, dropped, df, days_window, df_filtered, limits,
                   active_alerts, messages, fetchKind, hit, lastLoad, lastFailure>>

\* lines 252-257: the two columns are written into the object df_filtered,
\* and so into every name bound to that object
InsightWrites(s, reach, written) ==
    /\ df_filtered' = [df_filtered EXCEPT ![s] = written]
    /\ df' = [t \in Sessions |->
                 IF reach /\ (t = s \/ SameObject(s, t)) THEN written ELSE df[t]]
    /\ cache' = EntryAfterWrites(cache, s \in cache.holders, reach, written)
    /\ dropped' = {[d EXCEPT !.entry =
                       EntryAfterWrites(d.entry, s \in d.entry.holders, reach, written)] :
                      d \in dropped}

\* lines 167-262: the tabs only display, except for the two columns the
\* insight step writes into df_filtered; the trendline of line 241 raises
\* where its package is missing
Insights(s) ==
    /\ pc[s] = "tabs"
    /\ \/ /\ pc' = [pc EXCEPT ![s] = "raised"]
          /\ UNCHANGED <<cache, dropped, df, df_filtered, ran>>
       \/ /\ InsightWrites(s, SliceIsSelf(df[s], days_window[s]), WithIndexes(df_filtered[s]))
          /\ ran' = [ran EXCEPT ![s] = @ \cup {"insights"}]
          /\ pc' = [pc EXCEPT ![s] = "done"]
    /\ stale' = [stale EXCEPT ![s] = FALSE]
    /\ UNCHANGED <<now, lock, days_window, limits, active_alerts, kpis, messages,
                   fetchKind, hit, lastLoad, lastFailure>>

\* time passes; a failure as old as the TTL is history no more
Elapse ==
    /\ now + TickSeconds <= MaxTicks * TickSeconds
    /\ now' = now + TickSeconds
    /\ lastFailure' = IF lastFailure >= 0 /\ now + TickSeconds - lastFailure >= TTL
                      THEN -1 ELSE lastFailure
    /\ UNCHANGED <<cache, lock, dropped, pc, df, days_window, df_filtered, limits,
                   active_alerts, kpis, messages, stale, ran, fetchKind, hit,
                   lastLoad>>

\* two sessions run the whole pipeline on every outcome of the fetch
Next ==
    \/ \E s \in Pair :
          \/ StartPass(s)
          \/ LoadDataHit(s, Copies)
          \/ LoadDataHitAbandoned(s)
          \/ LoadDataWait(s)
          \/ LoadDataBegin(s)
          \/ LoadDataMiss(s, PipeLoads, Copies)
          \/ LoadDataAbandoned(s, PipeLoads)
          \/ Sidebar(s, PipeWindows, PipeLimits)
          \/ ManualRefresh(s)
          \/ Interrupt(s)
          \/ Alerts(s)
          \/ KpiStep(s)
          \/ Insights(s)
    \/ Elapse

Spec == Init /\ [][Next]_vars

One == "s1"

\* two sessions run the whole pipeline on a fetch that succeeds, and the
\* cache hands out the object it keeps, or a copy
NextAlias ==
    \/ \E s \in Pair :
          \/ StartPass(s)
          \/ LoadDataHit(s, PipeHandouts)
          \/ LoadDataWait(s)
          \/ LoadDataBegin(s)
          \/ LoadDataMiss(s, AliasLoads, PipeHandouts)
          \/ Sidebar(s, PipeWindows, PipeLimits)
          \/ ManualRefresh(s)
          \/ Interrupt(s)
          \/ Alerts(s)
          \/ KpiStep(s)
          \/ Insights(s)
    \/ Elapse

SpecAlias == Init /\ [][NextAlias]_vars

\* three sessions share the cache: one loads, one waits for the load and one
\* clears the cache meanwhile
\* the passes are followed up to the sidebar, where the user presses the
\* button or interacts again
NextCache ==
    \/ \E s \in Sessions :
          \/ StartPass(s)
          \/ LoadDataHit(s, Copies)
          \/ LoadDataHitAbandoned(s)
          \/ LoadDataWait(s)
          \/ LoadDataBegin(s)
          \/ LoadDataMiss(s, CacheLoads, Copies)
          \/ LoadDataAbandoned(s, CacheLoads)
          \/ ManualRefresh(s)
          \/ Interrupt(s)
    \/ Elapse

SpecCache == Init /\ [][NextCache]_vars

-----------------------------------------------------------------------------
(* Runs of a single pass on richer inputs.  They start where the pass of    *)
(* one session calls load_data on a cold cache, or where it reaches the     *)
(* sidebar; the other sessions stay idle.                                   *)

InitLoad ==
    /\ now = 0
    /\ cache = NoEntry
    /\ lock = Free
    /\ dropped = {}
    /\ pc = [s \in Sessions |-> IF s = One THEN "load" ELSE "idle"]
    /\ df = [s \in Sessions |-> Unset]
    /\ days_window = [s \in Sessions |-> 0]
    /\ df_filtered = [s \in Sessions |-> Unset]
    /\ limits = [s \in Sessions |-> NoLimits]
    /\ active_alerts = [s \in Sessions |-> <<>>]
    /\ kpis = [s \in Sessions |-> NoKpis]
    /\ messages = [s \in Sessions |-> <<>>]
    /\ stale = [s \in Sessions |-> FALSE]
    /\ ran = [s \in Sessions |-> {}]
    /\ fetchKind = [s \in Sessions |-> "none"]
    /\ hit = [s \in Sessions |-> "none"]
    /\ lastLoad = NoLoad
    /\ lastFailure = -1

\* two days whose last row takes every combination of values below, at and
\* above the limits; a quote (10/9) whose reciprocal is the double just
\* under 0.9, quotes (200, 1, 1.11) whose reciprocals round to 0.01, 1.00
\* and 0.90 when displayed, quotes of zero of either sign, whose reciprocal
\* is infinite, and a column never quoted
MacroRow(m, t, e) ==
    [c \in Range(MACRO_TICKERS) |->
        IF c = "MXN=X" THEN m ELSE IF c = "^TNX" THEN t ELSE e]
AlertLastRows ==
    {MacroRow(m, t, e) : m \in {Q(2049, 100), Q(41, 2), Q(2051, 100)},
                         t \in {Q(449, 100), Q(9, 2), Q(451, 100)},
                         e \in {Q(5, 4), Q(10, 9), Q(111, 100), F(200), F(1), F(0), NegZero}}
Dead(c) == {<<c, 1>>, <<c, 2>>}
AlertOutcomes ==
    {Returned(ShapeRaw("close", TickerFrame(2, {}, row))) : row \in AlertLastRows}
    \cup {Returned(ShapeRaw("close", TickerFrame(2, Dead(c), NoOverride))) :
              c \in {"MXN=X", "^TNX", "EURUSD=X"}}
AlertLoads == {Load(o) : o \in AlertOutcomes}
AlertLimits ==
    [usd_mxn : {Q(41, 2), Q(2049, 100)}, treasury : {Q(9, 2), Q(449, 100)},
     usd_eur : {Q(4, 5), Q(9, 10), F(1)}]

NextAlerts ==
    \/ LoadDataBegin(One)
    \/ LoadDataMiss(One, AlertLoads, Copies)
    \/ Sidebar(One, {SliderDefault}, AlertLimits)
    \/ Alerts(One)

SpecAlerts == InitLoad /\ [][NextAlerts]_vars

\* a table of n days as a pass holds it at the sidebar (the windowing reads no
\* column by name)
WindowFrames == {Rename(TickerFrame(n, {}, NoOverride)) : n \in 1..MaxWinRows}

InitWindow ==
    /\ now = 0
    /\ \E t \in WindowFrames :
          /\ df = [s \in Sessions |-> IF s = One THEN t ELSE Unset]
          /\ cache = StoreEntry([value |-> t, msgs |-> <<>>], 0, {})
          /\ lastLoad = [at |-> 0, kind |-> "table", value |-> t]
    /\ lock = Free
    /\ dropped = {}
    /\ pc = [s \in Sessions |-> IF s = One THEN "sidebar" ELSE "idle"]
    /\ days_window = [s \in Sessions |-> 0]
    /\ df_filtered = [s \in Sessions |-> Unset]
    /\ limits = [s \in Sessions |-> NoLimits]
    /\ active_alerts = [s \in Sessions |-> <<>>]
    /\ kpis = [s \in Sessions |-> NoKpis]
    /\ messages = [s \in Sessions |-> <<>>]
    /\ stale = [s \in Sessions |-> FALSE]
    /\ ran = [s \in Sessions |-> {}]
    /\ fetchKind = [s \in Sessions |-> IF s = One THEN "table" ELSE "none"]
    /\ hit = [s \in Sessions |-> "none"]
    /\ lastFailure = -1

NextWindow == Sidebar(One, SliderMin..SliderMax, {DefaultLimits})

SpecWindow == InitWindow /\ [][NextWindow]_vars

\* the ETL on tables of 1..MaxGapRows days: every pattern of missing cells in
\* two of the columns, every raw shape, and every pattern of missing cells
\* before a last EUR/USD quote that is ordinary (1.1, 10/9, 1.08), zero or
\* infinite of either sign
GapColumns == {"EURUSD=X", "KO"}
GapFrames ==
    UNION {{TickerFrame(n, gaps, NoOverride) : gaps \in SUBSET (GapColumns \X (1..n))} :
              n \in 1..MaxGapRows}
EurQuotes == {Q(11, 10), Q(10, 9), Q(27, 25), F(0), NegZero, Inf, NegInf}
EurRow(e) == [c \in {"EURUSD=X"} |-> e]
EurFrames ==
    UNION {{TickerFrame(n, gaps, EurRow(e)) :
               gaps \in SUBSET ({"EURUSD=X"} \X (1..(n - 1))), e \in EurQuotes} :
              n \in 1..MaxGapRows}
ETLOutcomes ==
    {Raised}
    \cup {Returned(ShapeRaw(shape, t)) : shape \in {"close", "adj"}, t \in GapFrames}
    \cup {Returned(ShapeRaw("close", t)) : t \in EurFrames}
    \cup {Returned(ShapeRaw(shape, TickerFrame(n, {}, NoOverride))) :
              shape \in Shapes, n \in 1..MaxGapRows}

ETLLoads == {Load(o) : o \in ETLOutcomes}

NextETL ==
    \/ LoadDataBegin(One)
    \/ LoadDataMiss(One, ETLLoads, Copies)

SpecETL == InitLoad /\ [][NextETL]_vars

-----------------------------------------------------------------------------
(* C1: get_alerts returns exactly the alerts of the rules whose strict      *)
(* comparison holds (USD_MXN > ceiling, US_Treasury_10Y > ceiling,          *)
(* USD_EUR < floor), one per rule, in the order domestic, long-rate,        *)
(* foreign; a value equal to its limit triggers nothing, and with every     *)
(* value inside its limit the result is empty.                              *)

RuleOrder == <<"CRITICO", "ALERTA", "AVISO">>

LastRow(s) == RowFromEnd(df_filtered[s], 1)

Triggered(s, tag) ==
    CASE tag = "CRITICO" -> FGt(LastRow(s)["USD_MXN"], limits[s].usd_mxn)
      [] tag = "ALERTA" -> FGt(LastRow(s)["US_Treasury_10Y"], limits[s].treasury)
      [] tag = "AVISO" -> FLt(LastRow(s)["USD_EUR"], limits[s].usd_eur)

AlertTags(s) == [i \in 1..Len(active_alerts[s]) |-> active_alerts[s][i].tag]

C1_AlertsExact ==
    \A s \in Sessions :
        "alerts" \in ran[s] =>
            /\ AlertTags(s) = SelectSeq(RuleOrder, LAMBDA tag : Triggered(s, tag))
            /\ FEq(LastRow(s)["USD_MXN"], limits[s].usd_mxn)
                   => "CRITICO" \notin Range(AlertTags(s))
            /\ FEq(LastRow(s)["US_Treasury_10Y"], limits[s].treasury)
                   => "ALERTA" \notin Range(AlertTags(s))
            /\ FEq(LastRow(s)["USD_EUR"], limits[s].usd_eur)
                   => "AVISO" \notin Range(AlertTags(s))
            /\ (\A tag \in Range(RuleOrder) : ~Triggered(s, tag)) => active_alerts[s] = <<>>

\* USD/MXN sits exactly on its ceiling 20.5 and triggers nothing, the 10Y
\* rate is above its ceiling, and the reciprocal of the quote 10/9, the
\* double just under 0.9 that is displayed as 0.90, is under the floor 0.90
C1_Witness ==
    \E s \in Sessions :
        /\ "alerts" \in ran[s]
        /\ AlertTags(s) = <<"ALERTA", "AVISO">>
        /\ LastRow(s)["USD_MXN"] = limits[s].usd_mxn
        /\ LastRow(s)["EUR_USD_Exchange"] = Q(10, 9)
        /\ limits[s].usd_eur = Q(9, 10)
        /\ active_alerts[s][2].actual.digits = <<0, 9, 0>>

-----------------------------------------------------------------------------
(* C7: the windowed table is the last min(nDays, L) rows of the table in    *)
(* their original order; with nDays > L it is the whole table.              *)

WindowLen(s) == Min(days_window[s], NRows(df[s]))

C7_WindowIsTail ==
    \A s \in Sessions :
        "window" \in ran[s] =>
            /\ NRows(df_filtered[s]) = WindowLen(s)
            /\ Columns(df_filtered[s]) = Columns(df[s])
            /\ \A j \in 1..WindowLen(s) :
                  /\ df_filtered[s].index[j] = df[s].index[NRows(df[s]) - WindowLen(s) + j]
                  /\ \A c \in Columns(df[s]) :
                        /\ Len(df_filtered[s].cols[c]) = WindowLen(s)
                        /\ df_filtered[s].cols[c][j]
                               = df[s].cols[c][NRows(df[s]) - WindowLen(s) + j]
            /\ days_window[s] > NRows(df[s]) => df_filtered[s] = df[s]

\* a window that drops rows off the front of the table
C7_Witness ==
    \E s \in Sessions :
        /\ "window" \in ran[s]
        /\ days_window[s] = SliderMin
        /\ NRows(df[s]) = SliderMin + 2
        /\ df_filtered[s].index[1] = 3

-----------------------------------------------------------------------------
(* C4: when a column is still entirely missing after forward-fill then      *)
(* backward-fill, load_data fails (an empty result that halts the pass);    *)
(* it never returns a non-empty table containing an all-missing column.     *)

AllMissing(t, c) == \A i \in 1..NRows(t) : IsNaN(t.cols[c][i])

Loaded(s) == fetchKind[s] \notin {"none", "pending"} /\ pc[s] # "rerun"

C4_AllMissingColumnFails ==
    \A s \in Sessions :
        Loaded(s) =>
            \/ IsEmpty(df[s]) /\ pc[s] = "stopped"
            \/ \A c \in Columns(df[s]) : ~AllMissing(df[s], c)

-----------------------------------------------------------------------------
(* C5: every non-empty table returned by load_data has no missing value in  *)
(* any column and any row, the derived columns included.                    *)

C5_NoMissingValue ==
    \A s \in Sessions :
        (Loaded(s) /\ ~IsEmpty(df[s])) =>
            /\ {"USD_EUR", "CETES_28"} \subseteq Columns(df[s])
            /\ \A c \in Columns(df[s]) : \A i \in 1..NRows(df[s]) : ~IsNaN(df[s].cols[c][i])

-----------------------------------------------------------------------------
(* C9: in every table returned by load_data, USD_EUR at row i is the        *)
(* reciprocal of EUR_USD_Exchange at row i, the filled rows included, up to *)
(* the rounding of a double: |u * e - 1| <= 2^-52 for the exact product of  *)
(* the two cells; the reciprocal of a zero is the infinity of its sign, of  *)
(* an infinity the zero of its sign, and of a missing value missing.        *)

\* |a - b| <= 2^x
BWithin(a, b, x) ==
    BCmp(IF BCmp(a, b) >= 0 THEN BSub(a, b) ELSE BSub(b, a), BShl(<<1>>, x)) <= 0

\* |m * 2^-x - 1| <= 2^-(MantBits - 1), for x >= 0
NearOne(m, x) == BWithin(BShl(m, MantBits - 1), BShl(<<1>>, MantBits - 1 + x), x)

IsReciprocal(u, e) ==
    IF IsNaN(e) THEN IsNaN(u)
    ELSE IF IsZero(e) THEN u = Infinity(SignBit(e))
    ELSE IF ~IsFinite(e) THEN u = Zero(SignBit(e))
    ELSE /\ IsFinite(u) /\ ~IsZero(u) /\ u[1] = e[1]
         /\ u[2] + e[2] <= 0
         /\ NearOne(BMul(u[3], e[3]), -(u[2] + e[2]))

C9_Reciprocal ==
    \A s \in Sessions :
        (Loaded(s) /\ ~IsEmpty(df[s])) =>
            \A i \in 1..NRows(df[s]) :
                IsReciprocal(df[s].cols["USD_EUR"][i], df[s].cols["EUR_USD_Exchange"][i])

\* days 1 and 2 were missing and took day 3's quote 10/9 backwards, and its
\* reciprocal with it: the double just under 0.9, not 0.9
C9_Witness ==
    \E s \in Sessions :
        /\ fetchKind[s] = "table"
        /\ NRows(df[s]) = 3
        /\ df[s].cols["EUR_USD_Exchange"] = [i \in 1..3 |-> Q(10, 9)]
        /\ \A i \in 1..3 : FLt(df[s].cols["USD_EUR"][i], Q(9, 10))

-----------------------------------------------------------------------------
(* C2: in every pass where the Fetcher returns an empty result or raises,   *)
(* the failure is reported once, load_data yields an empty table, and the   *)
(* pass halts before any downstream stage: no windowing, no alert           *)
(* evaluation, no KPI or insight computation, and no partial or stale data  *)
(* shown.                                                                   *)

FetchFailed(s) == fetchKind[s] \in {"raise", "empty"}

NothingDownstream(s) ==
    /\ ran[s] = {}
    /\ IsEmpty(df[s])
    /\ df_filtered[s] = Unset /\ active_alerts[s] = <<>> /\ kpis[s] = NoKpis
    /\ ~stale[s]

C2_FailFast ==
    \A s \in Sessions :
        FetchFailed(s) =>
            /\ Len(messages[s]) = 1
            /\ pc[s] = "stopped"
            /\ NothingDownstream(s)

-----------------------------------------------------------------------------
(* C3, as claimed: a pass invokes the Fetcher if and only if the cache      *)
(* holds no entry younger than the TTL: passes within the TTL after a load  *)
(* never invoke it, the first pass after a manual refresh or after expiry   *)
(* always does.                                                             *)

\* the step in which the load_data call of s reads the cache for the last time
ReadStep(s) == pc[s] \in {"load", "waiting"} /\ pc'[s] \notin {"load", "waiting"}
FetchStep(s) == fetchKind[s] = "none" /\ fetchKind'[s] # "none"
NoYoungEntry == ~cache.present \/ now - cache.at >= TTL

C3_FetchIffStale ==
    [][\A s \in Sessions :
           /\ ReadStep(s) => (FetchStep(s) <=> NoYoungEntry)
           /\ ~ReadStep(s) => ~FetchStep(s)]_vars

(* C3, amended: a pass invokes the Fetcher if and only if, when its         *)
(* load_data call reads the cache for the last time, the cache object the   *)
(* call started on holds no entry younger than the TTL, an entry aged       *)
(* exactly the TTL counting as either.  A manual refresh replaces the cache *)
(* object for the calls that start after it only: a call that is waiting    *)
(* for a load in progress is served the result of that load without         *)
(* invoking the Fetcher.  Passes within the TTL after a load never invoke   *)
(* the Fetcher, and the first pass after a manual refresh or after expiry   *)
(* always does.                                                             *)

\* when the load was stored that the cache object of the call of s holds: for
\* the object in use the time of the last store since the last clear, -1 for
\* none
StoredAt(s) == IF OnDropped(s) THEN ObjectOf(s).entry.at ELSE lastLoad.at
Younger(at) == at >= 0 /\ now - at < TTL
Older(at) == at = -1 \/ now - at > TTL

C3_FetchIffStaleObject ==
    [][\A s \in Sessions :
           /\ ReadStep(s) =>
                 /\ Younger(StoredAt(s)) => ~FetchStep(s)
                 /\ Older(StoredAt(s)) => FetchStep(s)
           /\ ~ReadStep(s) => ~FetchStep(s)
           /\ (pc[s] = "load" /\ pc'[s] # "load") =>
                 /\ Younger(lastLoad.at) => (~FetchStep(s) /\ pc'[s] # "waiting")
                 /\ Older(lastLoad.at) => (FetchStep(s) \/ pc'[s] = "waiting")]_vars

\* a call that waited for a load which a manual refresh overtook has been
\* served the result of that load, without a fetch of its own, while the
\* cache holds no entry
C3_Witness ==
    \E s \in Sessions :
        /\ hit[s] = "dropped"
        /\ fetchKind[s] = "none"
        /\ pc[s] = "sidebar"
        /\ ~cache.present
        /\ lastLoad.at = -1

-----------------------------------------------------------------------------
(* C6: no pass raises an exception because the window has fewer than 2      *)
(* rows, a table of exactly one row included.                               *)

C6_NoRaiseOnShortWindow ==
    \A s \in Sessions : ~(pc[s] = "raised" /\ NRows(df_filtered[s]) < 2)

-----------------------------------------------------------------------------
(* C8: the cached table is immutable while its entry lives: no step of a    *)
(* pass changes the table of an entry (the insight step's two column writes *)
(* included, whether the pass holds the object the cache keeps or a copy),  *)
(* and every pass served from the entry is handed the columns and values    *)
(* that load_data returned when the entry was stored.                       *)

-----------------------------------------------------------------------------
(* C10: after a pass whose fetch returned empty or raised, every later pass *)
(* within the TTL gets the cached empty table and halts before the          *)
(* manual-refresh control, and the Fetcher is not invoked again until the   *)
(* TTL expires.  A pass that the next interaction of its session cuts short *)
(* while load_data replays the stored message is not held against this.     *)

AfterFailure == lastFailure >= 0 /\ now - lastFailure < TTL

C10_FailureMemoized ==
    [][AfterFailure =>
          \A s \in Sessions :
              /\ ~FetchStep(s)
              /\ (ReadStep(s) /\ pc'[s] # "rerun")
                    => (IsEmpty(df'[s]) /\ pc'[s] = "stopped")]_vars

=============================================================================
